---- MODULE Spec2Model ----
(***************************************************************************)
(* Model of lukaszkaiser/trax, models/research:                            *)
(*   transformer_no_enc_dec_attention.py  ConcatWithPadding,               *)
(*                                        StripFromConcatenateWithPadding  *)
(*                                        TransformerNoEncDecAttention     *)
(*   terraformer.py                       ConfigurableTerraformer          *)
(*                                                                         *)
(* A tensor is a record [tag, shape, data]: shape is the tuple of its      *)
(* dimensions, data the nested sequences of its elements (rows, positions, *)
(* features).  A raised exception is a record [tag, exc].                  *)
(***************************************************************************)
EXTENDS Integers, Sequences, FiniteSets, TLC

\* The two layers and their caller.
VARIABLES mode, concat_state, strip_state, concat_called, strip_called, call

VARIABLES concat_raised, strip_raised

\* A call of ConfigurableTerraformer: its arguments, its position, its locals.
VARIABLES cfg, pc, dims, built, decoder_blocks, layer_idx, model

layerVars == <<mode, concat_state, strip_state, concat_called, strip_called, call,
              concat_raised, strip_raised>>

builderVars == <<cfg, pc, dims, built, decoder_blocks, layer_idx, model>>

\* An application of the model ConfigurableTerraformer returned: the arguments
\* of the call, the embedding weights, the data stack, the stack the last
\* stage received, and the number of the stage that runs next.
VARIABLES args, weights, stack, before, stage

\* The forward pass under way or ended last: its number since the weights
\* and states were initialised, the states of the two layers when it began,
\* the forward calls of the two layers it made, whether a pass before it
\* has raised, and the row offsets at which concat placed the decoder
\* vectors and at which strip began to read.
\* The code does not read it.
VARIABLE pass

runVars == <<args, weights, stack, before, stage, pass>>

vars == <<layerVars, builderVars, runVars>>

(***************************************************************************)
(* Bounds of the model.                                                    *)
(***************************************************************************)
\* Largest encoder length L1 and decoder length L2 that are enumerated.
MaxLen == 2

\* Batch sizes that are enumerated: rows are mapped independently
\* (jax.lax.map), two rows show that no row reads another row's mask.
Batches == {1, 2}

\* Hidden sizes that are enumerated.
Hiddens == {1, 2}

Modes == {"train", "eval", "predict"}

(***************************************************************************)
(* Values.                                                                 *)
(***************************************************************************)
Tensor(shape, data) == [tag |-> "tensor", shape |-> shape, data |-> data]

\* A raised exception and the check that raised it.
Raise(exc, at) == [tag |-> "error", exc |-> exc, at |-> at]

IsTensor(x) == x.tag = "tensor"

IsError(x) == x.tag = "error"

\* jnp.array(0, dtype=jnp.int32).shape
ScalarShape == << >>

\* the shape of state.reshape((1,))
ReshapedShape == <<1>>

RECURSIVE SumSeq(_)
\* jnp.sum(row, dtype=jnp.int32)
SumSeq(s) == IF s = << >> THEN 0 ELSE Head(s) + SumSeq(Tail(s))

Min(a, b) == IF a < b THEN a ELSE b

Max(a, b) == IF a > b THEN a ELSE b

\* jax.lax clamps the start index of a dynamic slice so that the slice fits.
ClampStart(start, operandLen, sliceLen) == Max(0, Min(start, operandLen - sliceLen))

\* jax.lax.dynamic_update_slice along axis 0 (the other start index is zero
\* and the update spans the whole of axis 1).  Indices are 0-based as in the
\* source, sequences 1-based.
DynamicUpdateSlice(operand, update, start) ==
  LET s == ClampStart(start, Len(operand), Len(update))
  IN  [i \in 1..Len(operand) |->
         IF i - 1 >= s /\ i - 1 < s + Len(update) THEN update[i - s] ELSE operand[i]]

\* jax.lax.dynamic_slice along axis 0, of `size` positions, whole of axis 1.
DynamicSlice(operand, start, size) ==
  LET s == ClampStart(start, Len(operand), size)
  IN  [i \in 1..size |-> operand[s + i]]

(***************************************************************************)
(* ConcatWithPadding                                                       *)
(***************************************************************************)
\* _UpdateRow with the decoder row written after all L1 encoder positions.
ConcatUpdateRowAtEnd(row_e, row_d, row_mask_e, H) ==
  LET final_row == row_e \o [i \in 1..Len(row_d) |-> [h \in 1..H |-> 0]]
  IN  DynamicUpdateSlice(final_row, row_d, Len(row_e))

\* _UpdateRow with the row extended by row_d instead of zeros_like(row_d).
ConcatUpdateRowNoZeros(row_e, row_d, row_mask_e, H) ==
  DynamicUpdateSlice(row_e \o row_d, row_d, SumSeq(row_mask_e))

\* _ConcatWithPadding._UpdateRow.  H is the hidden size of the rows, which
\* zeros_like(row_d) reads off row_d's shape.
ConcatUpdateRow(row_e, row_d, row_mask_e, H) ==
  LET final_row == row_e \o [i \in 1..Len(row_d) |-> [h \in 1..H |-> 0]]
      e_idx     == SumSeq(row_mask_e)
  IN  DynamicUpdateSlice(final_row, row_d, e_idx)

\* _ConcatWithPadding with the decoder checked against (B, L1, H).
ConcatWithPaddingEqualLengths(vec_e, vec_d, mask_e) ==
  IF vec_d.shape # vec_e.shape THEN Raise("ValueError", "decoder vector")
  ELSE IF mask_e.shape # <<vec_e.shape[1], vec_e.shape[2]>>
  THEN Raise("ValueError", "encoder mask")
  ELSE Tensor(<<vec_e.shape[1], 2 * vec_e.shape[2], vec_e.shape[3]>>,
              [r \in 1..vec_e.shape[1] |->
                 ConcatUpdateRow(vec_e.data[r], vec_d.data[r], mask_e.data[r], vec_e.shape[3])])

\* ConcatWithPadding._ConcatWithPadding
_ConcatWithPadding(vec_e, vec_d, mask_e) ==
  IF Len(vec_e.shape) # 3 THEN Raise("ValueError", "unpack vec_e.shape")
  ELSE IF Len(vec_d.shape) < 2 THEN Raise("IndexError", "vec_d.shape[1]")
  ELSE
    LET B  == vec_e.shape[1]
        L1 == vec_e.shape[2]
        H  == vec_e.shape[3]
        L2 == vec_d.shape[2]
    IN  IF vec_d.shape # <<B, L2, H>> THEN Raise("ValueError", "decoder vector")
        ELSE IF mask_e.shape # <<B, L1>> THEN Raise("ValueError", "encoder mask")
        ELSE Tensor(<<B, L1 + L2, H>>,
                    [r \in 1..B |->
                       ConcatUpdateRow(vec_e.data[r], vec_d.data[r], mask_e.data[r], H)])

\* forward's if without the test of the state.
AlwaysFullComputation(m, state) == TRUE

\* The condition of forward's if: self._mode != 'predict' or not self.state.shape
FullComputation(m, state) == m # "predict" \/ state = ScalarShape

\* forward without its reshape of the state.
StateNotReshaped(m, state) == state

\* The state forward leaves: reshaped on the full path, untouched otherwise.
StateAfterForward(m, state) == IF FullComputation(m, state) THEN ReshapedShape ELSE state

(***************************************************************************)
(* StripFromConcatenateWithPadding                                         *)
(***************************************************************************)
\* _UpdateRow with len_e the sum of the token ids.
StripUpdateRowSumOfIds(row_ed, row_e, L2) == DynamicSlice(row_ed, SumSeq(row_e), L2)

\* _StripFromConcatenateWithPadding._UpdateRow
StripUpdateRow(row_ed, row_e, L2) ==
  LET mask_e == [i \in 1..Len(row_e) |-> IF row_e[i] # 0 THEN 1 ELSE 0]
      len_e  == SumSeq(mask_e)
  IN  DynamicSlice(row_ed, len_e, L2)

\* _StripFromConcatenateWithPadding without the check of tok_d's shape.
StripWithoutDecoderTokenCheck(vec_ed, tok_e, tok_d) ==
  IF vec_ed.shape[2] # tok_e.shape[2] + tok_d.shape[2] THEN Raise("ValueError", "length")
  ELSE IF tok_e.shape # <<vec_ed.shape[1], tok_e.shape[2]>>
  THEN Raise("ValueError", "encoder tokens")
  ELSE Tensor(<<vec_ed.shape[1], tok_d.shape[2], vec_ed.shape[3]>>,
              [r \in 1..vec_ed.shape[1] |->
                 StripUpdateRow(vec_ed.data[r], tok_e.data[r], tok_d.shape[2])])

\* StripFromConcatenateWithPadding._StripFromConcatenateWithPadding
_StripFromConcatenateWithPadding(vec_ed, tok_e, tok_d) ==
  IF Len(vec_ed.shape) # 3 THEN Raise("ValueError", "unpack vec_ed.shape")
  ELSE IF Len(tok_e.shape) < 2 THEN Raise("IndexError", "tok_e.shape[1]")
  ELSE IF Len(tok_d.shape) < 2 THEN Raise("IndexError", "tok_d.shape[1]")
  ELSE
    LET B  == vec_ed.shape[1]
        L  == vec_ed.shape[2]
        H  == vec_ed.shape[3]
        L1 == tok_e.shape[2]
        L2 == tok_d.shape[2]
    IN  IF L # L1 + L2 THEN Raise("ValueError", "length")
        ELSE IF tok_e.shape # <<B, L1>> THEN Raise("ValueError", "encoder tokens")
        ELSE IF tok_d.shape # <<B, L2>> THEN Raise("ValueError", "decoder tokens")
        ELSE Tensor(<<B, L2, H>>,
                    [r \in 1..B |-> StripUpdateRow(vec_ed.data[r], tok_e.data[r], L2)])

(***************************************************************************)
(* Inputs of the forward calls.                                            *)
(***************************************************************************)
Lens == 0..MaxLen

\* The value of feature h of position i of row r of the tensor numbered t:
\* nonzero and different for every element.
Code(t, r, i, h) == 1000 * t + 100 * r + 10 * i + h

\* A (B, L, H) tensor of vectors whose elements are f(r, i, h).
Vectors(B, L, H, f(_, _, _)) ==
  Tensor(<<B, L, H>>, [r \in 1..B |-> [i \in 1..L |-> [h \in 1..H |-> f(r, i, h)]]])

\* A (B, L) tensor of scalars whose elements are given by rows.
Matrix(B, L, rows) == Tensor(<<B, L>>, rows)

\* Every (B, L) array over the values vals.
Rows(B, L, vals) == [1..B -> [1..L -> vals]]

\* Encoder vectors: "coded" all nonzero, also where the mask is zero (what an
\* encoder stack returns), "padded" zero where the mask is zero.
EncPatterns == {"coded", "padded"}

EncoderVectors(B, L1, H, mask, p) ==
  Vectors(B, L1, H,
          LAMBDA r, i, h : IF p = "coded" THEN Code(1, r, i, h)
                                           ELSE Code(1, r, i, h) * mask[r][i])

DecoderVectors(B, L2, H) == Vectors(B, L2, H, LAMBDA r, i, h : Code(2, r, i, h))

MergedVectors(B, L, H) == Vectors(B, L, H, LAMBDA r, i, h : Code(3, r, i, h))

ConstMatrix(B, L, v) == Matrix(B, L, [r \in 1..B |-> [i \in 1..L |-> v]])

\* A rank-1 and a rank-3 array of ones, for the calls that break the contract.
OnesOfShape(shape) ==
  CASE Len(shape) = 1 -> Tensor(shape, [i \in 1..shape[1] |-> 1])
    [] Len(shape) = 2 -> ConstMatrix(shape[1], shape[2], 1)
    [] OTHER -> Vectors(shape[1], shape[2], shape[3], LAMBDA r, i, h : 1)

ConcatInput(vec_e, vec_d, mask_e) == [vec_e |-> vec_e, vec_d |-> vec_d, mask_e |-> mask_e]

\* Calls within the shape contract (B, L1, H), (B, L2, H), (B, L1): every 0/1
\* mask, a mask row need not be a prefix of ones.
ConcatInputsInContract ==
  UNION { { ConcatInput(EncoderVectors(B, L1, H, m, pe), DecoderVectors(B, L2, H),
                        Matrix(B, L1, m))
            : m \in Rows(B, L1, {0, 1}), pe \in EncPatterns }
          : B \in Batches, L1 \in Lens, L2 \in Lens, H \in Hiddens }

\* Shapes a mask may come with: (Bm, Lm) or the rank-1 (Lm).
MaskShapes == { <<b, l>> : b \in Batches, l \in Lens } \cup { <<l>> : l \in Lens }

\* Calls that break the contract in the decoder's batch or hidden size or in
\* the mask's shape.
ConcatInputsOffContract ==
  UNION { { ConcatInput(EncoderVectors(B, L1, H, [r \in 1..B |-> [i \in 1..L1 |-> 1]], "coded"),
                        DecoderVectors(Bd, 1, Hd), OnesOfShape(ms))
            : ms \in { s \in MaskShapes : Bd # B \/ Hd # H \/ s # <<B, L1>> } }
          : B \in Batches, Bd \in Batches, L1 \in Lens, H \in Hiddens, Hd \in Hiddens }

ConcatInputs == ConcatInputsInContract \cup ConcatInputsOffContract

StripInput(vec_ed, tok_e, tok_d) == [vec_ed |-> vec_ed, tok_e |-> tok_e, tok_d |-> tok_d]

\* Token ids; 0 is the padding token.
Tokens == {0, 2}

\* Calls within the contract (B, L1 + L2, H), (B, L1), (B, L2).
StripInputsInContract ==
  UNION { { StripInput(MergedVectors(B, L1 + L2, H), Matrix(B, L1, t), ConstMatrix(B, L2, d))
            : t \in Rows(B, L1, Tokens), d \in {0, 1} }
          : B \in Batches, L1 \in Lens, L2 \in Lens, H \in Hiddens }

\* Shapes token ids may come with: (Bt, Lt) or the rank-3 (B, Lt, 1).
TokenShapes(B) == { <<b, l>> : b \in Batches, l \in Lens } \cup { <<B, l, 1>> : l \in Lens }

\* Calls that break the contract in the merged length or in a token shape.
StripInputsOffContract ==
  UNION { { StripInput(MergedVectors(B, L, 1), OnesOfShape(p[1]), OnesOfShape(p[2]))
            : p \in { q \in TokenShapes(B) \X TokenShapes(B) :
                        \/ L # q[1][2] + q[2][2]
                        \/ q[1] # <<B, q[1][2]>>
                        \/ q[2] # <<B, q[2][2]>> } }
          : B \in Batches, L \in 0..(2 * MaxLen) }

StripInputs == StripInputsInContract \cup StripInputsOffContract

\* The tokens a model passes to strip next to concat's output: ids v at the
\* positions the mask marks real, 0 elsewhere.
TokensOfMask(mask_e, v) ==
  Tensor(mask_e.shape,
         [r \in 1..Len(mask_e.data) |->
            [i \in 1..Len(mask_e.data[r]) |-> IF mask_e.data[r][i] # 0 THEN v ELSE 0]])

\* What a model hands to strip after concat: concat's output, tokens whose
\* nonzero positions are the mask's (ids 1 or 2) or tokens without padding,
\* and decoder tokens of the decoder's shape.
PipedStripInputs(c) ==
  IF c.layer = "concat" /\ IsTensor(c.out) /\ Len(c.inputs.mask_e.shape) = 2
       /\ Len(c.inputs.vec_d.shape) = 3
  THEN { StripInput(c.out, tok_e, ConstMatrix(c.inputs.vec_d.shape[1], c.inputs.vec_d.shape[2], 1))
         : tok_e \in { TokensOfMask(c.inputs.mask_e, 1), TokensOfMask(c.inputs.mask_e, 2),
                       OnesOfShape(c.inputs.mask_e.shape) } }
  ELSE {}

(***************************************************************************)
(* The two layers as a state machine: mode is the mode both were built     *)
(* with, concat_state and strip_state are the shapes of self.state,        *)
(* call is the forward call whose result the caller holds (its inputs, the *)
(* path taken, its result), NoCall when the caller holds none.             *)
(* concat_called and strip_called record whether forward ran since the     *)
(* last init_weights_and_state, concat_raised and strip_raised whether the *)
(* last of these forward calls raised; the code reads none of the four.    *)
(***************************************************************************)
NoCall ==
  [layer |-> "none", branch |-> "none", inputs |-> << >>, out |-> [tag |-> "none"],
   first |-> FALSE, piped |-> FALSE, src |-> << >>, after_raise |-> FALSE]

\* The model is not applied.
NoPass == [number |-> 0, concat_state |-> << >>, strip_state |-> << >>, calls |-> << >>,
           raised |-> FALSE, placed |-> << >>, stripped |-> << >>]

NoRun ==
  /\ args = << >> /\ weights = "none" /\ stack = << >> /\ before = << >> /\ stage = 0
  /\ pass = NoPass

\* No call of ConfigurableTerraformer is under way.
NoBuilder ==
  /\ cfg = << >> /\ pc = "idle" /\ dims = << >> /\ built = << >>
  /\ decoder_blocks = << >> /\ layer_idx = 0 /\ model = << >>

\* The layers as built and initialised: init_weights_and_state has set state.
Init ==
  /\ NoBuilder
  /\ NoRun
  /\ mode \in Modes
  /\ concat_state = ScalarShape
  /\ strip_state = ScalarShape
  /\ concat_called = FALSE
  /\ strip_called = FALSE
  /\ concat_raised = FALSE
  /\ strip_raised = FALSE
  /\ call = NoCall

\* ConcatWithPadding.init_weights_and_state
ConcatInit ==
  /\ call = NoCall
  /\ concat_state' = ScalarShape
  /\ concat_called' = FALSE
  /\ concat_raised' = FALSE
  /\ UNCHANGED <<mode, strip_state, strip_called, strip_raised, call>>
  /\ UNCHANGED <<builderVars, runVars>>

\* StripFromConcatenateWithPadding.init_weights_and_state
StripInit ==
  /\ call = NoCall
  /\ strip_state' = ScalarShape
  /\ strip_called' = FALSE
  /\ strip_raised' = FALSE
  /\ UNCHANGED <<mode, concat_state, concat_called, concat_raised, call>>
  /\ UNCHANGED <<builderVars, runVars>>

\* A forward that checks the shapes on the second path as well.
ConcatForwardChecksBeforeReturn(m, state, inp) ==
  LET checked == _ConcatWithPadding(inp.vec_e, inp.vec_d, inp.mask_e)
  IN  IF FullComputation(m, state)
      THEN [branch |-> "full", out |-> checked]
      ELSE [branch |-> "passthrough",
            out |-> IF IsError(checked) THEN checked ELSE inp.vec_d]

\* What ConcatWithPadding.forward returns.
ConcatForwardResult(m, state, inp) ==
  IF FullComputation(m, state)
  THEN [branch |-> "full", out |-> _ConcatWithPadding(inp.vec_e, inp.vec_d, inp.mask_e)]
  ELSE [branch |-> "passthrough", out |-> inp.vec_d]

\* ConcatWithPadding.forward: the state is reshaped before the computation,
\* so it is set also when the computation raises.
ConcatForward ==
  \E inp \in ConcatInputs :
    LET res == ConcatForwardResult(mode, concat_state, inp)
    IN  /\ call = NoCall
        /\ concat_state' = StateAfterForward(mode, concat_state)
        /\ concat_called' = TRUE
        /\ concat_raised' = IsError(res.out)
        /\ call' = [layer |-> "concat", branch |-> res.branch, inputs |-> inp,
                    out |-> res.out, first |-> ~concat_called, piped |-> FALSE,
                    src |-> << >>, after_raise |-> concat_raised]
        /\ UNCHANGED <<mode, strip_state, strip_called, strip_raised>>
        /\ UNCHANGED <<builderVars, runVars>>

\* What StripFromConcatenateWithPadding.forward returns.
StripForwardResult(m, state, inp) ==
  IF FullComputation(m, state)
  THEN [branch |-> "full",
        out |-> _StripFromConcatenateWithPadding(inp.vec_ed, inp.tok_e, inp.tok_d)]
  ELSE [branch |-> "passthrough", out |-> inp.vec_ed]

\* StripFromConcatenateWithPadding.forward, on inputs of its own or on the
\* output of the last ConcatWithPadding.forward.
StripForward ==
  \E piped \in BOOLEAN :
    \E inp \in IF piped THEN PipedStripInputs(call) ELSE StripInputs :
      LET res == StripForwardResult(mode, strip_state, inp)
      IN  /\ piped \/ call = NoCall
          /\ strip_state' = StateAfterForward(mode, strip_state)
          /\ strip_called' = TRUE
          /\ strip_raised' = IsError(res.out)
          /\ call' = [layer |-> "strip", branch |-> res.branch, inputs |-> inp,
                      out |-> res.out, first |-> ~strip_called, piped |-> piped,
                      src |-> IF piped THEN call ELSE << >>,
                      after_raise |-> strip_raised]
          /\ UNCHANGED <<mode, concat_state, concat_called, concat_raised>>
          /\ UNCHANGED <<builderVars, runVars>>

\* The caller is done with the result of the call.
Return ==
  /\ call # NoCall
  /\ call' = NoCall
  /\ UNCHANGED <<mode, concat_state, strip_state, concat_called, strip_called>>
  /\ UNCHANGED <<concat_raised, strip_raised>>
  /\ UNCHANGED <<builderVars, runVars>>

Next == ConcatInit \/ StripInit \/ ConcatForward \/ StripForward \/ Return

Spec == Init /\ [][Next]_vars

(***************************************************************************)
(* Properties of the two layers.                                           *)
(***************************************************************************)
IsConcatCall == call.layer = "concat"

IsStripCall == call.layer = "strip"

\* The call took the path that computes, resp. the path that returns its input.
Full(c) == c.branch = "full"

Passthrough(c) == c.branch = "passthrough"

\* The inputs of a concat call are within (B, L1, H), (B, L2, H), (B, L1).
ConcatContract(inp) ==
  /\ Len(inp.vec_e.shape) = 3 /\ Len(inp.vec_d.shape) = 3
  /\ inp.vec_d.shape[1] = inp.vec_e.shape[1]
  /\ inp.vec_d.shape[3] = inp.vec_e.shape[3]
  /\ inp.mask_e.shape = <<inp.vec_e.shape[1], inp.vec_e.shape[2]>>

\* s_r: the number of ones of row r of a 0/1 mask.
RealLength(mask_e, r) == Cardinality({ i \in 1..mask_e.shape[2] : mask_e.data[r][i] = 1 })

\* The number of nonzero token ids of row r.
NonZeroTokens(tok, r) == Cardinality({ i \in 1..tok.shape[2] : tok.data[r][i] # 0 })

ZeroVector(H) == [h \in 1..H |-> 0]

\* (tok_e != 0) equals mask_e.
TokensMatchMask(tok_e, mask_e) ==
  /\ tok_e.shape = mask_e.shape
  /\ \A r \in 1..mask_e.shape[1] : \A i \in 1..mask_e.shape[2] :
       (tok_e.data[r][i] # 0) <=> (mask_e.data[r][i] = 1)

\* A strip call made on the output of a concat call with tokens that agree
\* with the mask, both calls having computed.
ConcatThenStrip ==
  /\ IsStripCall /\ call.piped /\ Full(call) /\ Full(call.src)
  /\ TokensMatchMask(call.inputs.tok_e, call.src.inputs.mask_e)

\* C1: stripping the output of concatenation, with tokens whose nonzero
\* positions are the mask's, returns exactly the decoder tensor that was
\* concatenated, in every row, when both layers compute.
C1_ConcatThenStripIsIdentity ==
  ConcatThenStrip => call.out = call.src.inputs.vec_d

\* Two rows of different real length, padding in one of them, a decoder that
\* is not empty, in predict mode (the first call) and stripped back.
C1_Witness ==
  /\ ConcatThenStrip
  /\ mode = "predict"
  /\ call.src.inputs.vec_e.shape[1] = 2
  /\ call.src.inputs.vec_d.shape[2] = MaxLen
  /\ RealLength(call.src.inputs.mask_e, 1) # RealLength(call.src.inputs.mask_e, 2)
  /\ RealLength(call.src.inputs.mask_e, 1) < call.src.inputs.mask_e.shape[2]
  /\ call.out = call.src.inputs.vec_d

\* A concat call that computed on inputs within the shape contract.
ConcatComputed == IsConcatCall /\ Full(call) /\ ConcatContract(call.inputs)

\* Row r of the output of the concat call, computed for row r alone.
RowAlone(inp, r) ==
  LET one(t) == Tensor(<<1>> \o Tail(t.shape), <<t.data[r]>>)
  IN  _ConcatWithPadding(one(inp.vec_e), one(inp.vec_d), one(inp.mask_e)).data[1]

\* C2: the output has shape (B, L1 + L2, H); in every row r, with s_r the sum
\* of the row's mask, positions 0..s_r-1 hold the row's encoder vectors
\* 0..s_r-1 and positions s_r..s_r+L2-1 hold the row's decoder vectors; the
\* row is what the layer computes from that row alone.
C2_DecoderPlacedAtRealLength ==
  ConcatComputed =>
    LET inp == call.inputs
        B   == inp.vec_e.shape[1]
        L1  == inp.vec_e.shape[2]
        H   == inp.vec_e.shape[3]
        L2  == inp.vec_d.shape[2]
    IN  /\ IsTensor(call.out)
        /\ call.out.shape = <<B, L1 + L2, H>>
        /\ \A r \in 1..B :
             LET s == RealLength(inp.mask_e, r)
             IN  /\ Len(call.out.data[r]) = L1 + L2
                 /\ \A i \in 0..(s - 1) : call.out.data[r][i + 1] = inp.vec_e.data[r][i + 1]
                 /\ \A j \in 0..(L2 - 1) : call.out.data[r][s + j + 1] = inp.vec_d.data[r][j + 1]
                 /\ call.out.data[r] = RowAlone(inp, r)

\* Two rows with different offsets, both with real encoder vectors kept.
C2_Witness ==
  /\ ConcatComputed
  /\ call.inputs.vec_e.shape[1] = 2
  /\ call.inputs.vec_d.shape[2] = MaxLen
  /\ RealLength(call.inputs.mask_e, 1) = 1
  /\ RealLength(call.inputs.mask_e, 2) = MaxLen
  /\ call.out.data[1][2] = call.inputs.vec_d.data[1][1]
  /\ call.out.data[2][MaxLen + 1] = call.inputs.vec_d.data[2][1]

DecoderSideInput(c) == IF c.layer = "concat" THEN c.inputs.vec_d ELSE c.inputs.vec_ed

\* C4: a forward call of either layer computes exactly when the mode is not
\* 'predict' or no forward call preceded it since init_weights_and_state;
\* a call that does not compute returns its decoder-side input unchanged,
\* whatever the mask or the tokens are.
C4_FirstCallComputes ==
  (IsConcatCall \/ IsStripCall) =>
    /\ Full(call) <=> (mode # "predict" \/ call.first)
    /\ Full(call) \/ Passthrough(call)
    /\ Passthrough(call) => call.out = DecoderSideInput(call)

\* A later predict-mode pass: concat returned a decoder tensor although the
\* mask has padding, and strip returned it in turn.
C4_Witness ==
  /\ IsStripCall /\ call.piped /\ mode = "predict"
  /\ ~call.first /\ ~call.src.first
  /\ Passthrough(call) /\ Passthrough(call.src)
  /\ RealLength(call.src.inputs.mask_e, 1) < call.src.inputs.mask_e.shape[2]
  /\ call.out = call.src.inputs.vec_d

\* A strip call that took the computing path, on a rank-3 merged tensor and
\* token arrays that have a length dimension.
StripComputed ==
  /\ IsStripCall /\ Full(call)
  /\ Len(call.inputs.vec_ed.shape) = 3
  /\ Len(call.inputs.tok_e.shape) >= 2 /\ Len(call.inputs.tok_d.shape) >= 2

\* Strip's shape contract is broken: L # L1 + L2, or tok_e is not (B, L1),
\* or tok_d is not (B, L2).
StripContractBroken(inp) ==
  \/ inp.vec_ed.shape[2] # inp.tok_e.shape[2] + inp.tok_d.shape[2]
  \/ inp.tok_e.shape # <<inp.vec_ed.shape[1], inp.tok_e.shape[2]>>
  \/ inp.tok_d.shape # <<inp.vec_ed.shape[1], inp.tok_d.shape[2]>>

\* C5: a strip call that computes raises ValueError, and returns no slice,
\* whenever the contract is broken; otherwise it returns a (B, L2, H) tensor
\* whose row r is the L2 positions of merged row r that start at the number
\* of nonzero tokens of tok_e[r].
C5_StripChecksShapes ==
  StripComputed =>
    LET inp == call.inputs
        B   == inp.vec_ed.shape[1]
        H   == inp.vec_ed.shape[3]
        L2  == inp.tok_d.shape[2]
    IN  IF StripContractBroken(inp)
        THEN IsError(call.out) /\ call.out.exc = "ValueError"
        ELSE /\ IsTensor(call.out)
             /\ call.out.shape = <<B, L2, H>>
             /\ \A r \in 1..B :
                  /\ Len(call.out.data[r]) = L2
                  /\ \A j \in 1..L2 :
                       call.out.data[r][j] = inp.vec_ed.data[r][NonZeroTokens(inp.tok_e, r) + j]

\* The merged length and tok_e are as declared, tok_d has another batch size:
\* the last of the three checks raises.
C5_Witness ==
  /\ StripComputed
  /\ call.inputs.vec_ed.shape[2] = call.inputs.tok_e.shape[2] + call.inputs.tok_d.shape[2]
  /\ call.inputs.tok_e.shape = <<call.inputs.vec_ed.shape[1], call.inputs.tok_e.shape[2]>>
  /\ Len(call.inputs.tok_d.shape) = 2
  /\ call.inputs.tok_d.shape[1] # call.inputs.vec_ed.shape[1]
  /\ IsError(call.out) /\ call.out.exc = "ValueError"

\* A concat call that took the computing path, on rank-3 vector tensors.
ConcatCalled ==
  /\ IsConcatCall /\ Full(call)
  /\ Len(call.inputs.vec_e.shape) = 3 /\ Len(call.inputs.vec_d.shape) = 3

\* C6: a concat call that computes raises ValueError exactly when the
\* decoder's batch or hidden size differs from the encoder's or the mask is
\* not (B, L1); it raises nothing else, and the decoder length is free.
C6_ConcatChecksShapes ==
  ConcatCalled =>
    LET inp == call.inputs
        broken == \/ inp.vec_d.shape[1] # inp.vec_e.shape[1]
                  \/ inp.vec_d.shape[3] # inp.vec_e.shape[3]
                  \/ inp.mask_e.shape # <<inp.vec_e.shape[1], inp.vec_e.shape[2]>>
    IN  /\ IsError(call.out) <=> broken
        /\ IsError(call.out) => call.out.exc = "ValueError"
        /\ ~broken => IsTensor(call.out)

\* Decoder and encoder of different lengths and the same batch and hidden
\* size, and a mask of another length: the mask check raises.
C6_Witness ==
  /\ ConcatCalled
  /\ call.inputs.vec_d.shape[1] = call.inputs.vec_e.shape[1]
  /\ call.inputs.vec_d.shape[3] = call.inputs.vec_e.shape[3]
  /\ call.inputs.vec_d.shape[2] # call.inputs.vec_e.shape[2]
  /\ Len(call.inputs.mask_e.shape) = 2
  /\ call.inputs.mask_e.shape[1] = call.inputs.vec_e.shape[1]
  /\ call.inputs.mask_e.shape[2] # call.inputs.vec_e.shape[2]
  /\ IsError(call.out) /\ call.out.exc = "ValueError"

\* A forward call of either layer made after a forward call on the same
\* instance raised, no init_weights_and_state in between.
CallAfterRaise == (IsConcatCall \/ IsStripCall) /\ call.after_raise

\* C13: self.state is reshaped before the shape checks, so it records that a
\* forward call was started: its shape is (1,) exactly when forward ran since
\* the last init_weights_and_state, whether the call raised or not; in
\* 'predict' mode only a first call raises, and the call that follows a call
\* that raised takes the second path, checks no shape and returns its
\* decoder-side input as it is.
C13_FlagRecordsStartedCall ==
  /\ concat_called <=> concat_state = ReshapedShape
  /\ ~concat_called <=> concat_state = ScalarShape
  /\ strip_called <=> strip_state = ReshapedShape
  /\ ~strip_called <=> strip_state = ScalarShape
  /\ (concat_raised => concat_called) /\ (strip_raised => strip_called)
  /\ mode = "predict" =>
       /\ (IsConcatCall \/ IsStripCall) /\ IsError(call.out) => call.first
       /\ CallAfterRaise =>
            /\ ~call.first
            /\ Passthrough(call)
            /\ IsTensor(call.out)
            /\ call.out = DecoderSideInput(call)

\* Both layers raised on their first call in 'predict' mode; the next concat
\* call, with a decoder of another batch size than the encoder's, returned
\* the decoder tensor, and strip, on that output, returned it in turn.
C13_Witness ==
  /\ mode = "predict"
  /\ IsStripCall /\ call.piped
  /\ call.after_raise /\ call.src.after_raise
  /\ Passthrough(call) /\ Passthrough(call.src)
  /\ call.src.inputs.vec_d.shape[1] # call.src.inputs.vec_e.shape[1]
  /\ call.inputs.vec_ed.shape[2] # call.inputs.tok_e.shape[2] + call.inputs.tok_d.shape[2]
  /\ call.out = call.src.inputs.vec_d
  /\ concat_state = ReshapedShape /\ strip_state = ReshapedShape
  /\ ~concat_raised /\ ~strip_raised

(***************************************************************************)
(* ConfigurableTerraformer.                                                *)
(*                                                                         *)
(* An optional argument is << >> (None) or <<n>>.  A layer is a record     *)
(* with its kind and the arguments it was constructed with; a combinator   *)
(* holds its sublayers in sub.  built lists the layers in the order in     *)
(* which they are constructed.                                             *)
(***************************************************************************)
\* Largest number of encoder and of decoder layers that is enumerated.
MaxLayers == 3

None == << >>

Some(n) == <<n>>

\* Python's truth value of an optional int: None and 0 are false.
Truthy(opt) == opt # None /\ opt[1] # 0

\* Twice the value of (d_model / 2) % n_heads: d_model / 2 is a float and
\* n_heads a positive int, so the remainder is a multiple of one half.
TwiceHalfModelModHeads(d_model, n_heads) == d_model % (2 * n_heads)

\* The check with integer division, d_model // 2, in place of d_model / 2.
HeadsCheckFloorDivision(d_model, n_heads) == (d_model \div 2) % n_heads # 0

\* if (d_model / 2) % n_heads != 0
HeadsCheckFails(d_model, n_heads) == TwiceHalfModelModHeads(d_model, n_heads) # 0

\* x / 2 for the x that are halved after the check has passed: d_model is a
\* multiple of 2 * n_heads, d_model // n_heads is even, d_ff is drawn even.
Half(x) == x \div 2

\* The arguments that are enumerated; the others keep their defaults.
DModels == {3, 4, 512}

DFFs == {8}

Heads == {1, 2, 7, 8}

Vocabs == {5}

LayerCounts == 0..MaxLayers

\* half_before_layer, double_after_layer: None, 0 and every layer index up
\* to one beyond the last layer.
LayerKnobs == {None} \cup { Some(n) : n \in 0..(MaxLayers + 1) }

Configs ==
  [input_vocab_size : { Some(v) : v \in Vocabs }, output_vocab_size : {None},
   d_model : DModels, d_ff : DFFs, n_heads : Heads,
   n_encoder_layers : {2}, n_decoder_layers : LayerCounts,
   n_layers_forget : {0}, forget_dense : {TRUE},
   reversible_encoder : {FALSE},
   half_before_layer : LayerKnobs, double_after_layer : LayerKnobs,
   mode : Modes]

\* Lines 135-154: the attention head sizes and the dimensions of the first
\* and of the final stage.
Dimensions(c) ==
  LET d_attention_key   == c.d_model \div c.n_heads
      d_attention_value == c.d_model \div c.n_heads
      halve  == Truthy(c.half_before_layer)
      double == Truthy(c.double_after_layer)
  IN  [d_attention_key    |-> d_attention_key,
       d_attention_value  |-> d_attention_value,
       d_model1           |-> IF halve THEN Half(c.d_model) ELSE c.d_model,
       d_ff1              |-> IF halve THEN Half(c.d_ff) ELSE c.d_ff,
       d_attention_key1   |-> IF halve THEN Half(d_attention_key) ELSE d_attention_key,
       d_attention_value1 |-> IF halve THEN Half(d_attention_value) ELSE d_attention_value,
       d_model2           |-> IF double THEN c.d_model * 2 ELSE c.d_model,
       d_ff2              |-> IF double THEN c.d_ff * 2 ELSE c.d_ff,
       d_attention_key2   |-> IF double THEN d_attention_key * 2 ELSE d_attention_key,
       d_attention_value2 |-> IF double THEN d_attention_value * 2 ELSE d_attention_value]

\* The layers of tl and of reformer that the function constructs.
PositionalEncoder(vocab_size, d_model, m) ==
  [kind |-> "PositionalEncoder", vocab_size |-> vocab_size, d_model |-> d_model, mode |-> m]

DecoderBlock(d_m, d_f, d_k, d_v, n_heads) ==
  [kind |-> "DecoderBlock", d_model |-> d_m, d_ff |-> d_f,
   d_attention_key |-> d_k, d_attention_value |-> d_v, n_heads |-> n_heads]

ReversibleConcatenatePair == [kind |-> "ReversibleConcatenatePair"]

\* The loop body with the doubled dimensions taken from layer
\* double_after_layer on, not after it.
DecoderBlockDimsFromDoubleLayer(c, d, idx) ==
  IF Truthy(c.double_after_layer) /\ idx >= c.double_after_layer[1]
  THEN <<d.d_model2, d.d_ff2, d.d_attention_key2, d.d_attention_value2>>
  ELSE IF Truthy(c.half_before_layer) /\ idx >= c.half_before_layer[1]
  THEN <<c.d_model, c.d_ff, d.d_attention_key, d.d_attention_value>>
  ELSE <<d.d_model1, d.d_ff1, d.d_attention_key1, d.d_attention_value1>>

\* Lines 222-226: d_m, d_f, d_k, d_v of decoder layer idx.
DecoderBlockDims(c, d, idx) ==
  IF Truthy(c.double_after_layer) /\ idx > c.double_after_layer[1]
  THEN <<d.d_model2, d.d_ff2, d.d_attention_key2, d.d_attention_value2>>
  ELSE IF Truthy(c.half_before_layer) /\ idx >= c.half_before_layer[1]
  THEN <<c.d_model, c.d_ff, d.d_attention_key, d.d_attention_value>>
  ELSE <<d.d_model1, d.d_ff1, d.d_attention_key1, d.d_attention_value1>>

\* Lines 227-245: what one iteration of the loop appends to decoder_blocks.
DecoderLayers(c, d, idx) ==
  LET dm == DecoderBlockDims(c, d, idx)
  IN  <<DecoderBlock(dm[1], dm[2], dm[3], dm[4], c.n_heads)>>
      \o (IF Truthy(c.half_before_layer) /\ idx = c.half_before_layer[1] - 1
          THEN <<ReversibleConcatenatePair>> ELSE << >>)
      \o (IF Truthy(c.double_after_layer) /\ idx = c.double_after_layer[1]
          THEN <<ReversibleConcatenatePair>> ELSE << >>)

\* Combinators and layers of tl, ct, reformer and t2.  Select's indices are
\* 0-based as in the source; n_in defaults to the largest index plus one.
Serial(layers) == [kind |-> "Serial", sub |-> layers]

ReversibleSerial(layers) == [kind |-> "ReversibleSerial", sub |-> layers]

Parallel(layers) == [kind |-> "Parallel", sub |-> layers]

Cache(layer) == [kind |-> "Cache", sub |-> <<layer>>]

AssertFunction(sig, layer) == [kind |-> "AssertFunction", sig |-> sig, sub |-> <<layer>>]

RECURSIVE MaxOf(_)
MaxOf(seq) == IF Len(seq) = 1 THEN seq[1] ELSE Max(seq[1], MaxOf(Tail(seq)))

Select(indices) == [kind |-> "Select", indices |-> indices, n_in |-> MaxOf(indices) + 1]

ReversibleSelect(indices) ==
  [kind |-> "ReversibleSelect", indices |-> indices, n_in |-> MaxOf(indices) + 1]

Fn(name, n_in, n_out) == [kind |-> "Fn", name |-> name, n_in |-> n_in, n_out |-> n_out]

Dense(n_units) == [kind |-> "Dense", n_units |-> n_units]

LayerNorm == [kind |-> "LayerNorm"]

Dup == [kind |-> "Dup"]

ShiftRight(m) == [kind |-> "ShiftRight", mode |-> m]

PaddingMask == [kind |-> "PaddingMask"]

EncoderBlock(d_model, d_ff, n_heads, m) ==
  [kind |-> "EncoderBlock", d_model |-> d_model, d_ff |-> d_ff, n_heads |-> n_heads,
   mode |-> m]

ConcatWithPaddingLayer(m) == [kind |-> "ConcatWithPadding", mode |-> m]

ConcatWithPadding2Layer(m) == [kind |-> "ConcatWithPadding2", mode |-> m]

StripFromConcatenateWithPaddingLayer(m) ==
  [kind |-> "StripFromConcatenateWithPadding", mode |-> m]

SparseDenseWithOptions(n_units, d_input, m) ==
  [kind |-> "SparseDenseWithOptions", n_units |-> n_units, d_input |-> d_input, mode |-> m]

\* Embedding of pre-embedded source vectors, when input_vocab_size is None.
VectorEncoder(d_model, m) == [kind |-> "VectorEncoder", d_model |-> d_model, mode |-> m]

\* ct.EmbeddingAndPositionalEncodings: in_encoder, out_encoder and the
\* output vocabulary, which is the input's when it is not given.
EmbeddingAndPositionalEncodings(c, d) ==
  LET in_encoder == IF c.input_vocab_size = None
                    THEN VectorEncoder(d.d_model1, c.mode)
                    ELSE PositionalEncoder(c.input_vocab_size[1], d.d_model1, c.mode)
  IN  [in_encoder  |-> in_encoder,
       out_encoder |-> IF c.output_vocab_size = None THEN in_encoder
                       ELSE PositionalEncoder(c.output_vocab_size[1], d.d_model1, c.mode),
       output_vocab_size |-> IF c.output_vocab_size = None THEN c.input_vocab_size
                             ELSE c.output_vocab_size]

_InsertAxes12 == Fn("InsertAxes12", 1, 1)

_RemoveAxes12 == Fn("RemoveAxes12", 1, 1)

_AsTokenIDs == Fn("AsTokenIDs", 1, 1)

_XYAvg == Fn("XYAvg", 2, 1)

_ConvertToNaNsOnAnyZero == Fn("ConvertToNaNsOnAnyZero", 2, 2)

RECURSIVE ReversibleSerialForgetEveryPeriod(_, _, _, _)
\* _ReversibleSerialForget that stops at len(layers) <= n_layers.
ReversibleSerialForgetEveryPeriod(layers, d_model, n_layers, forget_dense) ==
  IF n_layers = 0 \/ Len(layers) <= n_layers
  THEN ReversibleSerial(layers)
  ELSE LET layers1 == SubSeq(layers, 1, n_layers)
           layers2 == SubSeq(layers, n_layers + 1, Len(layers))
           forgetting_layer == IF forget_dense
                               THEN Serial(<<_XYAvg, Dense(d_model), Dup>>)
                               ELSE Select(<<0, 1>>)
       IN  Serial(<<ReversibleSerial(layers1), forgetting_layer,
                    ReversibleSerialForgetEveryPeriod(layers2, d_model, n_layers,
                                                      forget_dense)>>)

RECURSIVE _ReversibleSerialForget(_, _, _, _)
_ReversibleSerialForget(layers, d_model, n_layers, forget_dense) ==
  IF n_layers = 0 \/ Len(layers) <= n_layers + 1
  THEN ReversibleSerial(layers)
  ELSE LET layers1 == SubSeq(layers, 1, n_layers)
           layers2 == SubSeq(layers, n_layers + 1, Len(layers))
           forgetting_layer == IF forget_dense
                               THEN Serial(<<_XYAvg, Dense(d_model), Dup>>)
                               ELSE Select(<<0, 1>>)
       IN  Serial(<<ReversibleSerial(layers1), forgetting_layer,
                    _ReversibleSerialForget(layers2, d_model, n_layers, forget_dense)>>)

_EncoderBlock(c, d) == EncoderBlock(d.d_model1, d.d_ff1, c.n_heads, c.mode)

_Encoder(c, d) ==
  LET layers == <<ReversibleSelect(<<0, 0>>),
                  _ReversibleSerialForget([i \in 1..c.n_encoder_layers |-> _EncoderBlock(c, d)],
                                          d.d_model1, c.n_layers_forget, c.forget_dense)>>
                \o (IF ~c.reversible_encoder
                    THEN <<_XYAvg, Dense(d.d_model1), LayerNorm>> ELSE << >>)
  IN  IF c.mode = "predict" THEN Cache(Serial(layers)) ELSE Serial(layers)

_Loss(c, d, output_vocab_size) ==
  SparseDenseWithOptions(output_vocab_size[1], d.d_model2, c.mode)

\* _enc_dec_concat without the shuffle that brings vec_d next to vec_e.
EncDecConcatUnshuffled(c) ==
  <<ReversibleSelect(<<0, 1, 2, 3>>), ConcatWithPaddingLayer(c.mode),
    ReversibleSelect(<<0, 0>>)>>

_enc_dec_concat(c) ==
  IF c.reversible_encoder
  THEN <<ReversibleSelect(<<0, 1, 4, 2, 3>>), ConcatWithPadding2Layer(c.mode)>>
  ELSE <<ReversibleSelect(<<0, 3, 1, 2>>), ConcatWithPaddingLayer(c.mode),
         ReversibleSelect(<<0, 0>>)>>

_inp_layers(c, in_encoder) ==
  IF c.input_vocab_size # None
  THEN AssertFunction("bl,br->bld,bl,bl,br",
         Serial(<<Select(<<0, 0, 0, 1>>),
                  Parallel(<<in_encoder, Serial(<<PaddingMask, _RemoveAxes12>>)>>)>>))
  ELSE AssertFunction("blf,bl,br->bld,bl,bl,br",
         Serial(<<Select(<<0, 1, 1, 2>>),
                  Parallel(<<in_encoder, Serial(<< >>), _AsTokenIDs>>)>>))

\* Lines 293-323: the model, with the nested lists of the call flattened as
\* tl.Serial flattens them.
Terraformer(c, d, emb, blocks) ==
  Serial(<<_inp_layers(c, emb.in_encoder),
           Select(<<0, 1, 2, 3, 3>>),
           Parallel(<<Serial(<< >>), Serial(<< >>), Serial(<< >>),
                      Serial(<<ShiftRight(c.mode), emb.out_encoder>>)>>)>>
         \o (IF c.mode = "predict" THEN <<_ConvertToNaNsOnAnyZero>> ELSE << >>)
         \o <<_Encoder(c, d)>>
         \o _enc_dec_concat(c)
         \o <<_ReversibleSerialForget(blocks, d.d_model2, c.n_layers_forget, c.forget_dense),
              _XYAvg,
              LayerNorm,
              Select(<<0, 1, 2, 2>>),
              StripFromConcatenateWithPaddingLayer(c.mode),
              _Loss(c, d, emb.output_vocab_size)>>)

\* The constructors the return statement calls, in the order of the calls.
AssembledLayers(c) ==
  <<"_inp_layers", "Select", "Parallel">>
  \o (IF c.mode = "predict" THEN <<"_ConvertToNaNsOnAnyZero">> ELSE << >>)
  \o <<"_Encoder", "_enc_dec_concat", "_ReversibleSerialForget", "_XYAvg", "LayerNorm",
       "Select", "StripFromConcatenateWithPadding", "_Loss", "Serial">>

(***************************************************************************)
(* The call of ConfigurableTerraformer as a process: pc is the statement   *)
(* it is at, model what it returned or the exception it raised.            *)
(***************************************************************************)
BuilderInit ==
  /\ cfg \in Configs
  /\ pc = "check_heads"
  /\ dims = << >>
  /\ built = << >>
  /\ decoder_blocks = << >>
  /\ layer_idx = 0
  /\ model = << >>
  /\ NoRun
  /\ mode = "train" /\ concat_state = ScalarShape /\ strip_state = ScalarShape
  /\ concat_called = FALSE /\ strip_called = FALSE /\ call = NoCall
  /\ concat_raised = FALSE /\ strip_raised = FALSE

\* Lines 133-134.
CheckHeads ==
  /\ pc = "check_heads"
  /\ IF HeadsCheckFails(cfg.d_model, cfg.n_heads)
     THEN pc' = "raised" /\ model' = Raise("ValueError", "n_heads")
     ELSE pc' = "dimensions" /\ model' = model
  /\ UNCHANGED <<cfg, dims, built, decoder_blocks, layer_idx>>
  /\ UNCHANGED <<layerVars, runVars>>

\* Lines 135-154.
SetDimensions ==
  /\ pc = "dimensions"
  /\ dims' = Dimensions(cfg)
  /\ pc' = "embeddings"
  /\ UNCHANGED <<cfg, built, decoder_blocks, layer_idx, model>>
  /\ UNCHANGED <<layerVars, runVars>>

\* Lines 157-172.
Embeddings ==
  /\ pc = "embeddings"
  /\ built' = built \o <<"EmbeddingAndPositionalEncodings">>
  /\ pc' = "decoder_blocks"
  /\ UNCHANGED <<cfg, dims, decoder_blocks, layer_idx, model>>
  /\ UNCHANGED <<layerVars, runVars>>

\* Lines 218-245: one iteration of the loop over range(n_decoder_layers).
DecoderLayer ==
  /\ pc = "decoder_blocks"
  /\ layer_idx < cfg.n_decoder_layers
  /\ LET new == DecoderLayers(cfg, dims, layer_idx)
     IN  /\ decoder_blocks' = decoder_blocks \o new
         /\ built' = built \o [i \in 1..Len(new) |-> new[i].kind]
  /\ layer_idx' = layer_idx + 1
  /\ UNCHANGED <<cfg, pc, dims, model>>
  /\ UNCHANGED <<layerVars, runVars>>

\* Lines 293-323, after the loop has ended.  t2.ConcatWithPadding and
\* t2.StripFromConcatenateWithPadding are constructed with mode=mode.
Assemble ==
  /\ pc = "decoder_blocks"
  /\ layer_idx = cfg.n_decoder_layers
  /\ model' = Terraformer(cfg, dims, EmbeddingAndPositionalEncodings(cfg, dims),
                          decoder_blocks)
  /\ built' = built \o AssembledLayers(cfg)
  /\ pc' = "returned"
  /\ mode' = cfg.mode
  /\ UNCHANGED <<cfg, dims, decoder_blocks, layer_idx>>
  /\ UNCHANGED <<concat_state, strip_state, concat_called, strip_called, call>>
  /\ UNCHANGED <<concat_raised, strip_raised>>
  /\ UNCHANGED runVars

BuilderNext == CheckHeads \/ SetDimensions \/ Embeddings \/ DecoderLayer \/ Assemble

BuilderSpec == BuilderInit /\ [][BuilderNext]_vars

(***************************************************************************)
(* Properties of ConfigurableTerraformer.                                  *)
(***************************************************************************)
\* n_heads evenly divides d_model / 2: d_model / 2 = k * n_heads for an
\* integer k.
EvenlyDividesHalf(n_heads, d_model) == \E k \in 0..d_model : 2 * k * n_heads = d_model

\* C7: the call raises ValueError exactly when n_heads does not evenly
\* divide d_model / 2, and then no layer has been constructed; it does not
\* raise for d_model = 512, n_heads = 8 and raises for d_model = 512,
\* n_heads = 7.
C7_HeadsMustDivideHalfModel ==
  pc # "check_heads" =>
    /\ (pc = "raised") <=> ~EvenlyDividesHalf(cfg.n_heads, cfg.d_model)
    /\ pc = "raised" =>
         /\ IsError(model) /\ model.exc = "ValueError"
         /\ built = << >> /\ decoder_blocks = << >> /\ dims = << >>
    /\ (cfg.d_model = 512 /\ cfg.n_heads = 8) => pc # "raised"
    /\ (cfg.d_model = 512 /\ cfg.n_heads = 7) => pc = "raised"

\* d_model = 512 with n_heads = 7 has raised.
C7_Witness ==
  /\ pc = "raised" /\ cfg.d_model = 512 /\ cfg.n_heads = 7
  /\ IsError(model) /\ built = << >>

\* The decoder blocks of decoder_blocks, in order.
Blocks == SelectSeq(decoder_blocks, LAMBDA l : l.kind = "DecoderBlock")

\* The position in decoder_blocks of the block of layer idx (0-based).
BlockPosition(idx) ==
  CHOOSE p \in 1..Len(decoder_blocks) :
    /\ decoder_blocks[p].kind = "DecoderBlock"
    /\ Cardinality({ q \in 1..p : decoder_blocks[q].kind = "DecoderBlock" }) = idx + 1

ConcatPairs == { p \in 1..Len(decoder_blocks) : decoder_blocks[p].kind = "ReversibleConcatenatePair" }

\* The width that leaves a list of decoder elements entered with width w:
\* a block keeps the width it is built for, a ReversibleConcatenatePair
\* doubles it; -1 when a block is built for another width than it receives.
RECURSIVE WidthAfter(_, _)
WidthAfter(layers, w) ==
  IF layers = << >> \/ w = -1 THEN w
  ELSE IF Head(layers).kind = "DecoderBlock"
  THEN WidthAfter(Tail(layers), IF Head(layers).d_model = w THEN w ELSE -1)
  ELSE WidthAfter(Tail(layers), 2 * w)

\* The d_input of the loss layer, the last layer of the model.
LossInput == model.sub[Len(model.sub)].d_input

\* The blocks before layer N are halved, the blocks after layer M doubled.
HalvedBefore(N) ==
  \A idx \in 0..(cfg.n_decoder_layers - 1) :
    idx < N => /\ Blocks[idx + 1].d_model * 2 = cfg.d_model
               /\ Blocks[idx + 1].d_ff * 2 = cfg.d_ff

DoubledAfter(M) ==
  \A idx \in 0..(cfg.n_decoder_layers - 1) :
    idx > M => /\ Blocks[idx + 1].d_model = 2 * cfg.d_model
               /\ Blocks[idx + 1].d_ff = 2 * cfg.d_ff

\* A ReversibleConcatenatePair follows the block of layer idx.
ConcatPairAfter(idx) ==
  /\ BlockPosition(idx) < Len(decoder_blocks)
  /\ (BlockPosition(idx) + 1) \in ConcatPairs

\* Every block is built for the width it receives, from the width of the
\* encoder on, and the last width is the loss layer's d_input.
WidthsAgree ==
  /\ WidthAfter(decoder_blocks, dims.d_model1) # -1
  /\ WidthAfter(decoder_blocks, dims.d_model1) = LossInput
  /\ LossInput = dims.d_model2

KnobsInRange ==
  LET n == cfg.n_decoder_layers
      N == cfg.half_before_layer
      M == cfg.double_after_layer
  IN  /\ Truthy(N) => N[1] <= n
      /\ Truthy(M) => M[1] <= n - 1
      /\ (Truthy(N) /\ Truthy(M)) => M[1] >= N[1] - 1

Inf == 1000000

NegInf == 0 - Inf

NaN == 2000000

NonFinite == {Inf, NegInf, NaN}

\* x / 0. in IEEE arithmetic, which jnp follows without raising.
DivideByZero(x) ==
  IF x = NaN \/ x = 0 THEN NaN
  ELSE IF x > 0 THEN Inf
  ELSE NegInf

\* (x + y) / 2.0 on the abstracted floats.
Average(x, y) ==
  IF x = NaN \/ y = NaN \/ {x, y} = {Inf, NegInf} THEN NaN
  ELSE IF x \in NonFinite THEN x
  ELSE IF y \in NonFinite THEN y
  ELSE IF x = y THEN x
  ELSE IF x + y > 0 THEN 1 ELSE IF x + y < 0 THEN 0 - 1 ELSE 0

Name(kind, of) == [kind |-> kind, of |-> of]

TokE == Name("tok", <<"e">>)

TokD == Name("tok", <<"d">>)

MaskE == Name("mask", <<"e">>)

VecE == Name("vec", <<"e">>)

VecD == Name("vec", <<"d">>)

VecED == Name("vec", <<"e", "d">>)

Item(name, val) == [name |-> name, val |-> val]

\* The stack after a stage has raised.
Failure(err) == <<Item(Name("error", << >>), err)>>

Failed(s) == Len(s) = 1 /\ IsError(s[1].val)

LayerError(at) == Failure(Raise("LayerError", at))

Names(s) == [i \in 1..Len(s) |-> s[i].name]

Shapes(s) == [i \in 1..Len(s) |-> s[i].val.shape]

\* Whether row r of the (B, L, H) tensor x holds finite values only.
RowFinite(x, r) ==
  \A i \in 1..Len(x.data[r]) : \A h \in 1..Len(x.data[r][i]) : x.data[r][i][h] \notin NonFinite

\* What a layer with learned weights returns for the (B, L, .) inputs xs: a
\* (B, L, width) tensor.
Learned(xs, width) ==
  LET B == xs[1].shape[1]
      L == xs[1].shape[2]
  IN  Tensor(<<B, L, width>>,
             [r \in 1..B |-> [i \in 1..L |-> [h \in 1..width |->
                IF \A k \in 1..Len(xs) : RowFinite(xs[k], r) THEN 1 ELSE NaN]]])

\* The embedding weights that are enumerated: the value of feature h of an
\* embedded token.
EmbeddingWeights == {"positive", "negative", "zero", "mixed"}

EmbeddingValue(w, h) ==
  CASE w = "positive" -> 1
    [] w = "negative" -> 0 - 1
    [] w = "zero"     -> 0
    [] OTHER          -> IF h = 1 THEN 0 ELSE 1

(***************************************************************************)
(* The layers on the stack.  Each operator takes the items the layer       *)
(* consumes and returns the items it produces, or a Failure.               *)
(***************************************************************************)
\* The input or output embedding: token ids (B, L) to vectors (B, L, d_model).
RunPositionalEncoder(layer, x) ==
  IF Len(x.val.shape) # 2 THEN LayerError("PositionalEncoder")
  ELSE <<Item(Name("vec", x.name.of),
              Tensor(<<x.val.shape[1], x.val.shape[2], layer.d_model>>,
                     [r \in 1..x.val.shape[1] |-> [i \in 1..x.val.shape[2] |->
                        [h \in 1..layer.d_model |-> EmbeddingValue(weights, h)]]]))>>

\* tl.PaddingMask: (B, L) to (B, 1, 1, L), 1 where the token is not 0.
RunPaddingMask(x) ==
  IF Len(x.val.shape) # 2 THEN LayerError("PaddingMask")
  ELSE <<Item(Name("mask", x.name.of),
              Tensor(<<x.val.shape[1], 1, 1, x.val.shape[2]>>,
                     [r \in 1..x.val.shape[1] |->
                        << << [i \in 1..x.val.shape[2] |->
                                 IF x.val.data[r][i] # 0 THEN 1 ELSE 0] >> >>]))>>

\* jnp.squeeze(x, (1, 2)) of a (B, 1, 1, L) array.
RunRemoveAxes12(x) ==
  IF Len(x.val.shape) # 4 \/ x.val.shape[2] # 1 \/ x.val.shape[3] # 1
  THEN Failure(Raise("ValueError", "squeeze"))
  ELSE <<Item(x.name, Tensor(<<x.val.shape[1], x.val.shape[4]>>,
                             [r \in 1..x.val.shape[1] |-> x.val.data[r][1][1]]))>>

\* x.astype(jnp.int32)
RunAsTokenIDs(x) == <<Item(Name("tok", x.name.of), x.val)>>

\* (x + y) / 2.0 of two (B, L, H) arrays.
RunXYAvg(x, y) ==
  IF Len(x.val.shape) # 3 \/ x.val.shape # y.val.shape THEN LayerError("XYAvg")
  ELSE <<Item(x.name,
              Tensor(x.val.shape,
                     [r \in 1..x.val.shape[1] |-> [i \in 1..x.val.shape[2] |->
                        [h \in 1..x.val.shape[3] |->
                           Average(x.val.data[r][i][h], y.val.data[r][i][h])]]]))>>

\* jnp.all(y, keepdims=False) of a (B, L) array.
AllNonZero(y) ==
  \A r \in 1..y.shape[1] : \A i \in 1..y.shape[2] : y.data[r][i] # 0

\* _convert_to_nans: jnp.where(jnp.all(y), x, x/0.), y for x of (B, L, H)
\* and y of (B, L).
RunConvertToNaNsOnAnyZero(x, y) ==
  IF Len(x.val.shape) # 3 \/ Len(y.val.shape) # 2 THEN LayerError("ConvertToNaNsOnAnyZero")
  ELSE <<Item(x.name,
              Tensor(x.val.shape,
                     [r \in 1..x.val.shape[1] |-> [i \in 1..x.val.shape[2] |->
                        [h \in 1..x.val.shape[3] |->
                           IF AllNonZero(y.val) THEN x.val.data[r][i][h]
                           ELSE DivideByZero(x.val.data[r][i][h])]]])),
         y>>

\* tl.ShiftRight: the token ids moved one position to the right behind a 0;
\* the identity in predict mode.
RunShiftRight(layer, x) ==
  IF layer.mode = "predict" THEN <<x>>
  ELSE IF Len(x.val.shape) # 2 THEN LayerError("ShiftRight")
  ELSE <<Item(x.name,
              Tensor(x.val.shape,
                     [r \in 1..x.val.shape[1] |-> [i \in 1..x.val.shape[2] |->
                        IF i = 1 THEN 0 ELSE x.val.data[r][i - 1]]]))>>

\* A layer of learned weights from (B, L, d_in) to (B, L, width); d_in is
\* the width the layer was built for, or None when it takes any.
RunLearned(name, x, d_in, width) ==
  IF Len(x.val.shape) # 3 \/ (d_in # None /\ x.val.shape[3] # d_in[1]) THEN LayerError(name)
  ELSE <<Item(x.name, Learned(<<x.val>>, width))>>

\* reformer.EncoderBlock on x1, x2 of (B, L, d_model) and the mask (B, L).
RunEncoderBlock(layer, x1, x2, mask) ==
  IF \/ Len(x1.val.shape) # 3
     \/ x1.val.shape # x2.val.shape
     \/ x1.val.shape[3] # layer.d_model
     \/ mask.val.shape # <<x1.val.shape[1], x1.val.shape[2]>>
  THEN LayerError("EncoderBlock")
  ELSE <<Item(x1.name, Learned(<<x1.val, x2.val>>, layer.d_model)),
         Item(x2.name, Learned(<<x1.val, x2.val>>, layer.d_model)),
         mask>>

\* reformer.DecoderBlock on x1, x2 of (B, L, d_model).
RunDecoderBlock(layer, x1, x2) ==
  IF \/ Len(x1.val.shape) # 3
     \/ x1.val.shape # x2.val.shape
     \/ x1.val.shape[3] # layer.d_model
  THEN LayerError("DecoderBlock")
  ELSE <<Item(x1.name, Learned(<<x1.val, x2.val>>, layer.d_model)),
         Item(x2.name, Learned(<<x1.val, x2.val>>, layer.d_model))>>

\* tl.ReversibleConcatenatePair: both outputs are x1 and x2 concatenated
\* along the last axis.
RunReversibleConcatenatePair(x1, x2) ==
  IF Len(x1.val.shape) # 3 \/ x1.val.shape # x2.val.shape
  THEN LayerError("ReversibleConcatenatePair")
  ELSE LET both == Tensor(<<x1.val.shape[1], x1.val.shape[2], 2 * x1.val.shape[3]>>,
                          [r \in 1..x1.val.shape[1] |-> [i \in 1..x1.val.shape[2] |->
                             x1.val.data[r][i] \o x2.val.data[r][i]]])
       IN  <<Item(x1.name, both), Item(x2.name, both)>>

\* ConcatWithPadding.forward on vec_e, vec_d, mask_e.
RunConcatWithPadding(layer, vec_e, vec_d, mask_e) ==
  LET res == ConcatForwardResult(layer.mode, concat_state,
                                 ConcatInput(vec_e.val, vec_d.val, mask_e.val))
  IN  IF IsError(res.out) THEN Failure(res.out)
      ELSE IF res.branch = "full"
      THEN <<Item(Name("vec", vec_e.name.of \o vec_d.name.of), res.out)>>
      ELSE <<Item(vec_d.name, res.out)>>

\* StripFromConcatenateWithPadding.forward on vec_ed, tok_e, tok_d.
RunStripFromConcatenateWithPadding(layer, vec_ed, tok_e, tok_d) ==
  LET res == StripForwardResult(layer.mode, strip_state,
                                StripInput(vec_ed.val, tok_e.val, tok_d.val))
  IN  IF IsError(res.out) THEN Failure(res.out)
      ELSE IF res.branch = "full"
      THEN <<Item(Name("vec", IF vec_ed.name.of = tok_e.name.of \o tok_d.name.of
                              THEN tok_d.name.of ELSE <<"?">>), res.out)>>
      ELSE <<Item(vec_ed.name, res.out)>>

\* tl.Select and tl.ReversibleSelect: copies of the inputs the indices name.
RunSelect(layer, ins) == [k \in 1..Len(layer.indices) |-> ins[layer.indices[k] + 1]]

\* The shapes a signature of tl.AssertFunction admits.
SignatureHolds(sig, ins, outs) ==
  LET i == Shapes(ins)
      o == Shapes(outs)
  IN  CASE sig = "bl,br->bld,bl,bl,br" ->
             /\ Len(i) = 2 /\ Len(o) = 4
             /\ Len(i[1]) = 2 /\ Len(i[2]) = 2 /\ i[2][1] = i[1][1]
             /\ Len(o[1]) = 3 /\ o[1][1] = i[1][1] /\ o[1][2] = i[1][2]
             /\ o[2] = i[1] /\ o[3] = i[1] /\ o[4] = i[2]
        [] sig = "blf,bl,br->bld,bl,bl,br" ->
             /\ Len(i) = 3 /\ Len(o) = 4
             /\ Len(i[1]) = 3 /\ i[2] = <<i[1][1], i[1][2]>>
             /\ Len(i[3]) = 2 /\ i[3][1] = i[1][1]
             /\ Len(o[1]) = 3 /\ o[1][1] = i[1][1] /\ o[1][2] = i[1][2]
             /\ o[2] = i[2] /\ o[3] = i[2] /\ o[4] = i[3]
        [] OTHER -> FALSE

\* tl.Dropout keeps shape and name; which values it drops in train mode is
\* not modelled.
RunDropout(x) == <<x>>

\* tl.Fn('EncoderMask', lambda x: x != 0): 1 where the token is not 0.
RunEncoderMask(x) ==
  IF Len(x.val.shape) # 2 THEN LayerError("EncoderMask")
  ELSE <<Item(Name("mask", x.name.of),
              Tensor(x.val.shape,
                     [r \in 1..x.val.shape[1] |-> [i \in 1..x.val.shape[2] |->
                        IF x.val.data[r][i] # 0 THEN 1 ELSE 0]]))>>

\* transformer._EncoderBlock on activations (B, L, d_model) and the mask
\* (B, 1, 1, L) of tl.PaddingMask.
RunTransformerEncoderBlock(layer, x, mask) ==
  IF \/ Len(x.val.shape) # 3
     \/ x.val.shape[3] # layer.d_model
     \/ mask.val.shape # <<x.val.shape[1], 1, 1, x.val.shape[2]>>
  THEN LayerError("_EncoderBlock")
  ELSE <<Item(x.name, Learned(<<x.val>>, layer.d_model)), mask>>

\* transformer._DecoderBlock on activations (B, L, d_model).
RunTransformerDecoderBlock(layer, x) ==
  RunLearned("_DecoderBlock", x, Some(layer.d_model), layer.d_model)

(***************************************************************************)
(* The combinators: n_in and n_out of a layer, and a layer on a stack.     *)
(***************************************************************************)
RECURSIVE NIn(_), NOut(_), SerialArity(_, _, _), ParallelNIn(_), ParallelNOut(_)
RECURSIVE BranchNIn(_)
RECURSIVE RunLayer(_, _), RunSerial(_, _), RunParallel(_, _), RunBranch(_, _)

\* Serial._n_inputs_n_outputs: the inputs the sublayers need from outside
\* and the items they leave.
SerialArity(layers, running_max, running_total) ==
  IF layers = << >>
  THEN [n_in |-> running_max, n_out |-> running_max + running_total]
  ELSE LET t == running_total - NIn(Head(layers))
       IN  SerialArity(Tail(layers), Max(running_max, 0 - t), t + NOut(Head(layers)))

ParallelNIn(layers) ==
  IF layers = << >> THEN 0 ELSE NIn(Head(layers)) + ParallelNIn(Tail(layers))

\* tl.Branch: every sublayer reads the same inputs, as many as the one that
\* needs most.
BranchNIn(layers) ==
  IF layers = << >> THEN 0 ELSE Max(NIn(Head(layers)), BranchNIn(Tail(layers)))

ParallelNOut(layers) ==
  IF layers = << >> THEN 0 ELSE NOut(Head(layers)) + ParallelNOut(Tail(layers))

\* A Serial without sublayers keeps the defaults of Layer, one input and one
\* output.
NIn(layer) ==
  CASE layer.kind \in {"Serial", "ReversibleSerial"} ->
         IF layer.sub = << >> THEN 1 ELSE SerialArity(layer.sub, 0, 0).n_in
    [] layer.kind = "Parallel" -> ParallelNIn(layer.sub)
    [] layer.kind \in {"Cache", "AssertFunction"} -> NIn(layer.sub[1])
    [] layer.kind = "Branch" -> BranchNIn(layer.sub)
    [] layer.kind = "TransformerEncoderBlock" -> 2
    [] layer.kind \in {"Select", "ReversibleSelect", "Fn"} -> layer.n_in
    [] layer.kind \in {"EncoderBlock", "ConcatWithPadding",
                       "StripFromConcatenateWithPadding"} -> 3
    [] layer.kind \in {"DecoderBlock", "ReversibleConcatenatePair"} -> 2
    [] OTHER -> 1

NOut(layer) ==
  CASE layer.kind \in {"Serial", "ReversibleSerial"} ->
         IF layer.sub = << >> THEN 1 ELSE SerialArity(layer.sub, 0, 0).n_out
    [] layer.kind \in {"Parallel", "Branch"} -> ParallelNOut(layer.sub)
    [] layer.kind \in {"Cache", "AssertFunction"} -> NOut(layer.sub[1])
    [] layer.kind = "TransformerEncoderBlock" -> 2
    [] layer.kind \in {"Select", "ReversibleSelect"} -> Len(layer.indices)
    [] layer.kind = "Fn" -> layer.n_out
    [] layer.kind = "EncoderBlock" -> 3
    [] layer.kind \in {"DecoderBlock", "ReversibleConcatenatePair", "Dup"} -> 2
    [] OTHER -> 1

\* A layer that is no combinator, on the items ins it consumes.
RunPrimitive(layer, ins) ==
  CASE layer.kind = "PositionalEncoder" -> RunPositionalEncoder(layer, ins[1])
    [] layer.kind = "Embedding" -> RunPositionalEncoder(layer, ins[1])
    [] layer.kind = "Dropout" -> RunDropout(ins[1])
    [] layer.kind = "PositionalEncoding" ->
         IF Len(ins[1].val.shape) # 3 THEN LayerError("PositionalEncoding")
         ELSE RunLearned("PositionalEncoding", ins[1], None, ins[1].val.shape[3])
    [] layer.kind = "LogSoftmax" ->
         IF Len(ins[1].val.shape) # 3 THEN LayerError("LogSoftmax")
         ELSE RunLearned("LogSoftmax", ins[1], None, ins[1].val.shape[3])
    [] layer.kind = "TransformerEncoderBlock" ->
         RunTransformerEncoderBlock(layer, ins[1], ins[2])
    [] layer.kind = "TransformerDecoderBlock" -> RunTransformerDecoderBlock(layer, ins[1])
    [] layer.kind = "PaddingMask" -> RunPaddingMask(ins[1])
    [] layer.kind = "ShiftRight" -> RunShiftRight(layer, ins[1])
    [] layer.kind \in {"Select", "ReversibleSelect"} -> RunSelect(layer, ins)
    [] layer.kind = "Fn" ->
         CASE layer.name = "RemoveAxes12" -> RunRemoveAxes12(ins[1])
           [] layer.name = "AsTokenIDs" -> RunAsTokenIDs(ins[1])
           [] layer.name = "EncoderMask" -> RunEncoderMask(ins[1])
           [] layer.name = "XYAvg" -> RunXYAvg(ins[1], ins[2])
           [] layer.name = "ConvertToNaNsOnAnyZero" -> RunConvertToNaNsOnAnyZero(ins[1], ins[2])
           [] OTHER -> LayerError(layer.name)
    [] layer.kind = "Dense" -> RunLearned("Dense", ins[1], None, layer.n_units)
    [] layer.kind = "LayerNorm" ->
         IF Len(ins[1].val.shape) # 3 THEN LayerError("LayerNorm")
         ELSE RunLearned("LayerNorm", ins[1], None, ins[1].val.shape[3])
    [] layer.kind = "Dup" -> <<ins[1], ins[1]>>
    [] layer.kind = "EncoderBlock" -> RunEncoderBlock(layer, ins[1], ins[2], ins[3])
    [] layer.kind = "DecoderBlock" -> RunDecoderBlock(layer, ins[1], ins[2])
    [] layer.kind = "ReversibleConcatenatePair" -> RunReversibleConcatenatePair(ins[1], ins[2])
    [] layer.kind = "ConcatWithPadding" ->
         RunConcatWithPadding(layer, ins[1], ins[2], ins[3])
    [] layer.kind = "StripFromConcatenateWithPadding" ->
         RunStripFromConcatenateWithPadding(layer, ins[1], ins[2], ins[3])
    [] layer.kind = "SparseDenseWithOptions" ->
         RunLearned("SparseDenseWithOptions", ins[1], None, layer.n_units)
    [] OTHER -> LayerError(layer.kind)

\* Serial: every sublayer in turn on the stack the one before it left.
RunSerial(layers, s) ==
  IF layers = << >> \/ Failed(s) THEN s
  ELSE RunSerial(Tail(layers), RunLayer(Head(layers), s))

\* Parallel: every sublayer on its own span of the inputs.
RunParallel(layers, ins) ==
  IF layers = << >> THEN << >>
  ELSE LET n    == NIn(Head(layers))
           out  == RunLayer(Head(layers), SubSeq(ins, 1, n))
           rest == RunParallel(Tail(layers), SubSeq(ins, n + 1, Len(ins)))
       IN  IF Failed(out) THEN out
           ELSE IF Failed(rest) THEN rest
           ELSE out \o rest

\* Branch: every sublayer on a copy of the inputs, the outputs side by side.
RunBranch(layers, ins) ==
  IF layers = << >> THEN << >>
  ELSE LET out  == RunLayer(Head(layers), SubSeq(ins, 1, NIn(Head(layers))))
           rest == RunBranch(Tail(layers), ins)
       IN  IF Failed(out) THEN out
           ELSE IF Failed(rest) THEN rest
           ELSE out \o rest

\* A layer on the stack s: it takes its n_in items off the top and puts its
\* outputs in their place.
RunLayer(layer, s) ==
  IF Failed(s) THEN s
  ELSE IF Len(s) < NIn(layer) THEN LayerError("number of inputs")
  ELSE
    LET n    == NIn(layer)
        ins  == SubSeq(s, 1, n)
        rest == SubSeq(s, n + 1, Len(s))
        outs ==
          CASE layer.kind \in {"Serial", "ReversibleSerial"} -> RunSerial(layer.sub, ins)
            [] layer.kind = "Cache" -> RunLayer(layer.sub[1], ins)
            [] layer.kind = "Parallel" -> RunParallel(layer.sub, ins)
            [] layer.kind = "Branch" -> RunBranch(layer.sub, ins)
            [] layer.kind = "AssertFunction" ->
                 LET o == RunLayer(layer.sub[1], ins)
                 IN  IF Failed(o) \/ SignatureHolds(layer.sig, ins, o) THEN o
                     ELSE Failure(Raise("AssertionError", layer.sig))
            [] OTHER -> RunPrimitive(layer, ins)
    IN  IF Failed(outs) THEN outs ELSE outs \o rest

(***************************************************************************)
(* The caller builds the model and applies it once to a pair of token      *)
(* batches.                                                                *)
(***************************************************************************)
\* The configurations that are built and applied: no reshaping of the
\* width, or halving before and doubling after decoder layer 1.
RunConfigs ==
  { c \in Configs :
      /\ c.d_model = 4 /\ c.n_heads = 2 /\ c.n_decoder_layers = 2
      /\ <<c.half_before_layer, c.double_after_layer>>
           \in {<<None, None>>, <<Some(1), Some(1)>>} }

\* Source tokens (B, L1) with every pattern of padding, target tokens
\* (B, L2).
RunInputs ==
  UNION { { [tok_e |-> Matrix(B, L1, t), tok_d |-> ConstMatrix(B, L2, 1)]
            : t \in Rows(B, L1, {0, 1}) }
          : B \in Batches, L1 \in 1..MaxLen, L2 \in 1..MaxLen }

RunInit == BuilderInit /\ cfg \in RunConfigs

\* model.init and the call model((tok_e, tok_d)): the stack holds the
\* arguments, the states of the two layers are as init_weights_and_state
\* leaves them.
Apply ==
  \E a \in RunInputs, w \in EmbeddingWeights :
    /\ pc = "returned"
    /\ stage = 0
    /\ args' = a
    /\ weights' = w
    /\ stack' = <<Item(TokE, a.tok_e), Item(TokD, a.tok_d)>>
    /\ before' = << >>
    /\ stage' = 1
    /\ pass' = [number |-> 1, concat_state |-> concat_state, strip_state |-> strip_state,
                calls |-> << >>, raised |-> FALSE, placed |-> << >>,
                stripped |-> << >>]
    /\ UNCHANGED <<layerVars, builderVars>>

\* e_idx of _ConcatWithPadding._UpdateRow, for every row of the mask.
ConcatOffsets(mask_e) == [r \in 1..mask_e.shape[1] |-> SumSeq(mask_e.data[r])]

\* len_e of _StripFromConcatenateWithPadding._UpdateRow, for every row of
\* the encoder tokens.
StripOffsets(tok_e) ==
  [r \in 1..tok_e.shape[1] |->
     SumSeq([i \in 1..Len(tok_e.data[r]) |-> IF tok_e.data[r][i] # 0 THEN 1 ELSE 0])]

\* The next layer of the outermost Serial runs on the stack.
RunStage ==
  /\ pc = "returned"
  /\ stage \in 1..Len(model.sub)
  /\ ~Failed(stack)
  /\ LET layer == model.sub[stage]
         made  == CASE layer.kind = "ConcatWithPadding" ->
                         <<[layer |-> "concat",
                            branch |-> IF FullComputation(layer.mode, concat_state)
                                       THEN "full" ELSE "passthrough"]>>
                    [] layer.kind = "StripFromConcatenateWithPadding" ->
                         <<[layer |-> "strip",
                            branch |-> IF FullComputation(layer.mode, strip_state)
                                       THEN "full" ELSE "passthrough"]>>
                    [] OTHER -> << >>
     IN  /\ stack' = RunLayer(layer, stack)
         /\ pass' = [pass EXCEPT
                       !.calls = @ \o made,
                       !.placed = IF made = <<[layer |-> "concat", branch |-> "full"]>>
                                       /\ ~Failed(RunLayer(layer, stack))
                                  THEN ConcatOffsets(stack[3].val) ELSE @,
                       !.stripped = IF made = <<[layer |-> "strip", branch |-> "full"]>>
                                         /\ ~Failed(RunLayer(layer, stack))
                                    THEN StripOffsets(stack[2].val) ELSE @]
         /\ IF layer.kind = "ConcatWithPadding"
            THEN concat_state' = StateAfterForward(layer.mode, concat_state)
                 /\ concat_called' = TRUE
                 /\ concat_raised' = Failed(RunLayer(layer, stack))
            ELSE UNCHANGED <<concat_state, concat_called, concat_raised>>
         /\ IF layer.kind = "StripFromConcatenateWithPadding"
            THEN strip_state' = StateAfterForward(layer.mode, strip_state)
                 /\ strip_called' = TRUE
                 /\ strip_raised' = Failed(RunLayer(layer, stack))
            ELSE UNCHANGED <<strip_state, strip_called, strip_raised>>
  /\ before' = stack
  /\ stage' = stage + 1
  /\ UNCHANGED <<mode, call, args, weights>>
  /\ UNCHANGED builderVars

RunNext == BuilderNext \/ Apply \/ RunStage

RunSpec == RunInit /\ [][RunNext]_vars

(***************************************************************************)
(* Properties of the applied model.                                        *)
(***************************************************************************)
\* The model has run to its end.
RunDone == pc = "returned" /\ stage = Len(model.sub) + 1

\* _ConvertToNaNsOnAnyZero was the last stage to run: before holds what it
\* received, stack what it left.
JustRanConversion ==
  pc = "returned" /\ stage >= 2 /\ model.sub[stage - 1] = _ConvertToNaNsOnAnyZero

HasConversionStage == \E k \in 1..Len(model.sub) : model.sub[k] = _ConvertToNaNsOnAnyZero

AllNaN(x) ==
  \A r \in 1..x.shape[1] : \A i \in 1..x.shape[2] : \A h \in 1..x.shape[3] :
    x.data[r][i][h] = NaN

\* C8: only a model built in predict mode has the conversion stage; the
\* stage raises nothing and passes the mask on unchanged; when every mask
\* entry is nonzero it passes the encoder embedding on unchanged, and when
\* any entry of any row is zero every element of the embedding it leaves
\* is NaN.
C8_PaddingTurnsEmbeddingIntoNaNs ==
  /\ pc = "returned" => (HasConversionStage <=> cfg.mode = "predict")
  /\ JustRanConversion =>
       /\ ~Failed(stack)
       /\ stack[2] = before[2]
       /\ IF AllNonZero(before[2].val) THEN stack[1] = before[1]
          ELSE AllNaN(stack[1].val)

\* The stack that the comment next to each layer of the returned Serial
\* names (lines 294-322 and 267-269), None where the layer has none; v_e
\* reads vec_e, and vec_ed1, vec_ed2 are the two streams of vec_ed.
StackComments(c) ==
  << <<VecE, MaskE, TokE, TokD>>, None, <<VecE, MaskE, TokE, VecD, TokD>> >>
  \o (IF c.mode = "predict" THEN <<None>> ELSE << >>)
  \o << <<VecE, MaskE, TokE, VecD, TokD>>,
        <<VecE, VecD, MaskE, TokE, TokD>>,
        <<VecED, TokE, TokD>>,
        <<VecED, VecED, TokE, TokD>>,
        <<VecED, VecED, TokE, TokD>>,
        <<VecED, TokE, TokD>>,
        <<VecED, TokE, TokD>>,
        <<VecED, TokE, TokD, TokD>>,
        <<VecD, TokD>>,
        <<VecD, TokD>> >>

ForgetPeriods == 0..MaxLayers

ForgetConfigs ==
  [input_vocab_size : { Some(v) : v \in Vocabs }, output_vocab_size : {None},
   d_model : {4}, d_ff : DFFs, n_heads : {2},
   n_encoder_layers : LayerCounts, n_decoder_layers : LayerCounts,
   n_layers_forget : ForgetPeriods, forget_dense : BOOLEAN,
   reversible_encoder : {FALSE},
   half_before_layer : {None, Some(1)}, double_after_layer : {None},
   mode : Modes]

ForgetInit ==
  /\ cfg \in ForgetConfigs
  /\ pc = "check_heads"
  /\ dims = << >>
  /\ built = << >>
  /\ decoder_blocks = << >>
  /\ layer_idx = 0
  /\ model = << >>
  /\ NoRun
  /\ mode = "train" /\ concat_state = ScalarShape /\ strip_state = ScalarShape
  /\ concat_called = FALSE /\ strip_called = FALSE /\ call = NoCall
  /\ concat_raised = FALSE /\ strip_raised = FALSE

ForgetSpec == ForgetInit /\ [][BuilderNext]_vars

\* The two calls of _ReversibleSerialForget in the returned model: the
\* layers each was given and what it returned.
EncoderStage ==
  LET enc == model.sub[IF cfg.mode = "predict" THEN 5 ELSE 4]
  IN  IF enc.kind = "Cache" THEN enc.sub[1] ELSE enc

ForgetCalls ==
  { [layers |-> [i \in 1..cfg.n_encoder_layers |-> _EncoderBlock(cfg, dims)],
     d_model |-> dims.d_model1, out |-> EncoderStage.sub[2]],
    [layers |-> decoder_blocks,
     d_model |-> dims.d_model2, out |-> model.sub[Len(model.sub) - 5]] }

RECURSIVE Unroll(_)
\* The sublayers of what _ReversibleSerialForget returned, in order.
Unroll(t) ==
  IF t.kind = "ReversibleSerial" THEN t.sub
  ELSE t.sub[1].sub \o <<t.sub[2]>> \o Unroll(t.sub[3])

\* The forgetting block for forget_dense and d_model.
ForgettingBlock(forget_dense, d_model) ==
  IF forget_dense THEN Serial(<<_XYAvg, Dense(d_model), Dup>>) ELSE Select(<<0, 1>>)

IsForgettingBlock(l) == l.kind \in {"Serial", "Select"}

IsGivenLayer(l) == ~IsForgettingBlock(l)

\* The numbers of given layers in front of each forgetting block of u.
BlocksAfter(u) ==
  { Len(SelectSeq(SubSeq(u, 1, p - 1), IsGivenLayer)) :
      p \in { q \in 1..Len(u) : IsForgettingBlock(u[q]) } }

NumberOfBlocks(u) == Len(SelectSeq(u, IsForgettingBlock))

\* The given layers come back in their order, every block is the forgetting
\* block, and the blocks stand exactly after the numbers of layers in at.
ForgetsAt(c, at) ==
  LET u == Unroll(c.out)
  IN  /\ SelectSeq(u, IsGivenLayer) = c.layers
      /\ \A p \in 1..Len(u) :
           IsForgettingBlock(u[p]) => u[p] = ForgettingBlock(cfg.forget_dense, c.d_model)
      /\ BlocksAfter(u) = at
      /\ NumberOfBlocks(u) = Cardinality(at)

NoForgetting(c) == c.out = ReversibleSerial(c.layers)

MaxPasses == 3

Embedding(vocab_size, d_model) ==
  [kind |-> "Embedding", vocab_size |-> vocab_size, d_model |-> d_model]

Dropout(m) == [kind |-> "Dropout", mode |-> m]

PositionalEncoding == [kind |-> "PositionalEncoding"]

Branch(layers) == [kind |-> "Branch", sub |-> layers]

\* tl.Select(indices, n_in=n_in)
SelectN(indices, n_in) == [kind |-> "Select", indices |-> indices, n_in |-> n_in]

LogSoftmax == [kind |-> "LogSoftmax"]

TransformerEncoderBlock(c) ==
  [kind |-> "TransformerEncoderBlock", d_model |-> c.d_model, d_ff |-> c.d_ff,
   n_heads |-> c.n_heads, mode |-> c.mode]

TransformerDecoderBlock(c) ==
  [kind |-> "TransformerDecoderBlock", d_model |-> c.d_model, d_ff |-> c.d_ff,
   n_heads |-> c.n_heads, mode |-> c.mode]

\* Lines 60-65: the nested PositionalEncoder, a list of three layers.
TransformerPositionalEncoder(c, vocab_size) ==
  <<Embedding(vocab_size, c.d_model), Dropout(c.mode), PositionalEncoding>>

\* The decoder stack with Select([0, 1]) in place of Select([1, 0]): the
\* embedded decoder tokens stay in front of the encoder vectors.
TransformerNoEncDecAttentionUnswapped(c) ==
  LET in_encoder  == TransformerPositionalEncoder(c, c.input_vocab_size)
      out_encoder == IF c.output_vocab_size = None THEN in_encoder
                     ELSE TransformerPositionalEncoder(c, c.output_vocab_size[1])
      output_vocab_size == IF c.output_vocab_size = None THEN c.input_vocab_size
                           ELSE c.output_vocab_size[1]
      encoder == Serial(in_encoder
                        \o [i \in 1..c.n_encoder_layers |-> TransformerEncoderBlock(c)]
                        \o <<LayerNorm>>)
  IN  Serial(<<Select(<<0, 0, 1, 1>>),
               Branch(<<Serial(<< >>), PaddingMask>>),
               IF c.mode = "predict" THEN Cache(encoder) ELSE encoder,
               SelectN(<<2, 0, 2>>, 3),
               Fn("EncoderMask", 1, 1),
               Select(<<3, 1, 0, 2>>),
               ShiftRight(c.mode)>>
             \o out_encoder
             \o <<Select(<<0, 1>>),
                  ConcatWithPaddingLayer(c.mode)>>
             \o [i \in 1..c.n_decoder_layers |-> TransformerDecoderBlock(c)]
             \o <<LayerNorm,
                  Select(<<0, 1, 2, 2>>),
                  StripFromConcatenateWithPaddingLayer(c.mode),
                  Dense(output_vocab_size),
                  LogSoftmax>>)

\* Lines 60-127: the model, with the nested lists flattened as tl.Serial
\* flattens them.
TransformerNoEncDecAttention(c) ==
  LET in_encoder  == TransformerPositionalEncoder(c, c.input_vocab_size)
      out_encoder == IF c.output_vocab_size = None THEN in_encoder
                     ELSE TransformerPositionalEncoder(c, c.output_vocab_size[1])
      output_vocab_size == IF c.output_vocab_size = None THEN c.input_vocab_size
                           ELSE c.output_vocab_size[1]
      encoder == Serial(in_encoder
                        \o [i \in 1..c.n_encoder_layers |-> TransformerEncoderBlock(c)]
                        \o <<LayerNorm>>)
  IN  Serial(<<Select(<<0, 0, 1, 1>>),
               Branch(<<Serial(<< >>), PaddingMask>>),
               IF c.mode = "predict" THEN Cache(encoder) ELSE encoder,
               SelectN(<<2, 0, 2>>, 3),
               Fn("EncoderMask", 1, 1),
               Select(<<3, 1, 0, 2>>),
               ShiftRight(c.mode)>>
             \o out_encoder
             \o <<Select(<<1, 0>>),
                  ConcatWithPaddingLayer(c.mode)>>
             \o [i \in 1..c.n_decoder_layers |-> TransformerDecoderBlock(c)]
             \o <<LayerNorm,
                  Select(<<0, 1, 2, 2>>),
                  StripFromConcatenateWithPaddingLayer(c.mode),
                  Dense(output_vocab_size),
                  LogSoftmax>>)

\* The arguments that are enumerated; the others keep their defaults.
TransformerConfigs ==
  [input_vocab_size : Vocabs, output_vocab_size : {None, Some(3)},
   d_model : {2}, d_ff : DFFs, n_encoder_layers : {1}, n_decoder_layers : {1},
   n_heads : {1}, mode : Modes]

\* Source tokens of Be rows with a prefix of real tokens in every row, and
\* target tokens of Bd rows.
PrefixTokens(B, L) ==
  { [r \in 1..B |-> [i \in 1..L |-> IF i <= n[r] THEN 1 ELSE 0]] : n \in [1..B -> 0..L] }

\* The pairs (tok_e, tok_d) a pass is called with: the same batch size on
\* both sides, or, without padding, different ones.
PassInputs ==
  UNION { { [tok_e |-> Matrix(Be, L1, t), tok_d |-> ConstMatrix(Bd, L2, 1)]
            : t \in IF Be = Bd THEN PrefixTokens(Be, L1)
                    ELSE {[r \in 1..Be |-> [i \in 1..L1 |-> 1]]} }
          : Be \in Batches, Bd \in Batches, L1 \in 1..MaxLen, L2 \in 1..MaxLen }

\* The call of TransformerNoEncDecAttention has been made with cfg.
TransformerInit ==
  /\ cfg \in TransformerConfigs
  /\ pc = "build"
  /\ dims = << >> /\ built = << >> /\ decoder_blocks = << >> /\ layer_idx = 0
  /\ model = << >>
  /\ NoRun
  /\ mode = "train" /\ concat_state = ScalarShape /\ strip_state = ScalarShape
  /\ concat_called = FALSE /\ strip_called = FALSE /\ call = NoCall
  /\ concat_raised = FALSE /\ strip_raised = FALSE

\* Lines 60-127: the function returns the model; its two layers are built
\* with mode=mode.
BuildTransformer ==
  /\ pc = "build"
  /\ model' = TransformerNoEncDecAttention(cfg)
  /\ mode' = cfg.mode
  /\ pc' = "returned"
  /\ UNCHANGED <<cfg, dims, built, decoder_blocks, layer_idx>>
  /\ UNCHANGED <<concat_state, strip_state, concat_called, strip_called, call>>
  /\ UNCHANGED <<concat_raised, strip_raised>>
  /\ UNCHANGED runVars

\* No pass is under way: none has begun, or the last one ended or raised.
BetweenPasses == stage = 0 \/ stage = Len(model.sub) + 1 \/ Failed(stack)

\* model.init: every layer's init_weights_and_state, those of the two
\* layers among them.
InitWeights ==
  \E w \in EmbeddingWeights :
    /\ pc = "returned"
    /\ BetweenPasses
    /\ weights' = w
    /\ concat_state' = ScalarShape /\ concat_called' = FALSE /\ concat_raised' = FALSE
    /\ strip_state' = ScalarShape /\ strip_called' = FALSE /\ strip_raised' = FALSE
    /\ args' = << >> /\ stack' = << >> /\ before' = << >> /\ stage' = 0
    /\ pass' = NoPass
    /\ UNCHANGED <<mode, call>>
    /\ UNCHANGED builderVars

\* model((tok_e, tok_d)): a forward pass begins.
Forward ==
  \E a \in PassInputs :
    /\ pc = "returned"
    /\ weights # "none"
    /\ BetweenPasses
    /\ pass.number < MaxPasses
    /\ args' = a
    /\ stack' = <<Item(TokE, a.tok_e), Item(TokD, a.tok_d)>>
    /\ before' = << >>
    /\ stage' = 1
    /\ pass' = [number |-> pass.number + 1, concat_state |-> concat_state,
                strip_state |-> strip_state, calls |-> << >>,
                raised |-> pass.raised \/ Failed(stack), placed |-> << >>,
                stripped |-> << >>]
    /\ UNCHANGED <<weights, layerVars, builderVars>>

TransformerNext == BuildTransformer \/ InitWeights \/ Forward \/ RunStage

TransformerSpec == TransformerInit /\ [][TransformerNext]_vars

(***************************************************************************)
(* Properties of TransformerNoEncDecAttention.                             *)
(***************************************************************************)
\* The stage that ran last.
LastStage == model.sub[stage - 1]

JustRanStrip ==
  pc = "returned" /\ stage >= 2 /\ LastStage.kind = "StripFromConcatenateWithPadding"

PassEnded == pc = "returned" /\ stage = Len(model.sub) + 1

FullCall(l) == [layer |-> l, branch |-> "full"]

PassthroughCall(l) == [layer |-> l, branch |-> "passthrough"]

\* What the pass has called so far is a prefix of concat, then strip, both
\* on the path b.
CallsInOrder(b) ==
  pass.calls \in { << >>, <<[layer |-> "concat", branch |-> b]>>,
                   <<[layer |-> "concat", branch |-> b], [layer |-> "strip", branch |-> b]>> }

\* Both token batches of the pass have the same number of rows.
SameBatch == args.tok_e.shape[1] = args.tok_d.shape[1]

\* C12: in a model built in predict mode, while no pass has raised since
\* the initialisation: a first pass on token batches of the same number of
\* rows and every later pass raises nothing; at the start of every pass
\* both layers are in the same state, fresh in the first pass and in
\* passthrough in every later one; a pass calls concat and then strip, once
\* each, both computing in the first pass and both passing through in
\* every later one; strip then returns the tensor it received; and what
\* leaves strip has the decoder length of the pass.
C12_FlagsInLockstep ==
  (pc = "returned" /\ cfg.mode = "predict" /\ pass.number >= 1 /\ ~pass.raised) =>
    /\ (pass.number > 1 \/ SameBatch) => ~Failed(stack)
    /\ pass.concat_state = pass.strip_state
    /\ pass.concat_state = ScalarShape <=> pass.number = 1
    /\ ~Failed(stack) =>
         /\ CallsInOrder(IF pass.number = 1 THEN "full" ELSE "passthrough")
         /\ PassEnded => Len(pass.calls) = 2
         /\ PassEnded => concat_state = strip_state
         /\ JustRanStrip =>
              /\ stack[1].val.shape[2] = args.tok_d.shape[2]
              /\ pass.number > 1 => stack[1] = before[1]

\* The third pass of a predict model has ended: strip passed a tensor of
\* one decoder position through, after a first pass with padding in the
\* source and two decoder positions.
C12_Witness ==
  /\ PassEnded
  /\ cfg.mode = "predict"
  /\ pass.number = 3
  /\ ~pass.raised
  /\ pass.calls = <<PassthroughCall("concat"), PassthroughCall("strip")>>
  /\ args.tok_d.shape = <<2, 1>>
  /\ Shapes(stack) = << <<2, 1, 5>>, <<2, 1>> >>
  /\ concat_state = ReshapedShape /\ strip_state = ReshapedShape

JustRanConcat ==
  pc = "returned" /\ stage >= 2 /\ LastStage.kind = "ConcatWithPadding"

JustRanShiftRight == pc = "returned" /\ stage >= 2 /\ LastStage.kind = "ShiftRight"

\* tok_e != 0 as a 0/1 array.
NotPadding(tok_e) ==
  Tensor(tok_e.shape,
         [r \in 1..tok_e.shape[1] |-> [i \in 1..tok_e.shape[2] |->
            IF tok_e.data[r][i] # 0 THEN 1 ELSE 0]])

\* The stage that ran last was called while its layer computes.
StageComputed == pass.calls # << >> /\ pass.calls[Len(pass.calls)].branch = "full"

====
